---- MODULE Spec2Model ----
(***************************************************************************)
(* Model of src/App.js (SpiralPortraitApp): the component state, its event *)
(* handlers, and renderSpiral with its canvas contexts.                    *)
(*                                                                         *)
(* Numbers are fixed point.  Lengths are in 1/PX of a pixel, angles in     *)
(* 1/Milli of a radian, tone values in 1/LumScale (LumScale is 1.0).       *)
(* gamma is in hundredths; Pow raises to its whole part only, so the       *)
(* renders of this model use gamma = 1.00 and 2.00.                        *)
(*                                                                         *)
(* Left out, as nothing reads them: imgURL (line 11, set at line 43) and   *)
(* the locals lastX, lastY, currentWidth (lines 144-147).  Bitmap          *)
(* operations are by pixel centre: drawImage copies the nearest source     *)
(* pixel, clip and stroke cover a pixel when they cover its centre.        *)
(***************************************************************************)
EXTENDS Integers, Sequences, FiniteSets

VARIABLES
    img,          \* useState img: 0 is null, n > 0 the n-th Image object loaded
    busy,         \* useState busy
    downloadURL,  \* useState downloadURL: <<>> is "", <<"blob", r>> the URL of render r's blob
    error,        \* useState error
    params,       \* the eight control states (turns ... resolution)
    loading,      \* Image objects created by onFile whose onload/onerror is still to come
    loads,        \* number of Image objects created so far
    pending,      \* renders whose canvas.toBlob callback is still to come
    renders,      \* number of renderSpiral calls that passed the guard of line 76
    lastEvent,    \* the handler that ran last
    pc,           \* position inside the renderSpiral call being stepped through
    source,       \* pixel content of the Image object img
    data,         \* imgData.data of the hidden canvas (line 107)
    ctx,          \* drawing state of the visible canvas' 2d context
    stack,        \* states pushed by ctx.save()
    path,         \* current path of ctx: the points given to moveTo / lineTo
    widths,       \* w computed by each loop iteration (line 160), in order
    theta,        \* local theta
    first,        \* local first
    sampled,      \* r, theta and sample() result of the latest loop iteration / probe
    black,        \* pixels of the visible canvas that are black
    stroked       \* line width ctx.stroke() painted the path with (NotStroked before)

vars == <<img, busy, downloadURL, error, params, loading, loads, pending, renders,
          lastEvent, pc, source, data, ctx, stack, path, widths, theta, first,
          sampled, black, stroked>>

uiVars == <<img, busy, downloadURL, error, params, loading, loads, pending, renders,
            lastEvent>>

renderVars == <<pc, source, data, ctx, stack, path, widths, theta, first, sampled,
                black, stroked>>

----------------------------------------------------------------------------
(* Bounds of the model *)

MaxRes == 8
MaxTurns == 1
MaxRenders == 3
MaxLoads == 3
ProbeMargin == 2

(* Fixed-point scales *)
PX == 10 * 10
Milli == 10 * 10 * 10
LumScale == 2126 + 7152 + 722

(* Program constants *)
dTheta == 15
TwoPi == 6283
Pi == TwoPi \div 2
HalfPi == TwoPi \div 4

NaN == 0 - 1
NotStroked == 0 - 1
NoClip == [on |-> FALSE, cx |-> 0, cy |-> 0, r |-> 0]

----------------------------------------------------------------------------
(* Utility helpers *)

Max(a, b) == IF a >= b THEN a ELSE b
Min(a, b) == IF a <= b THEN a ELSE b

(* clamp without its upper limit *)
clampNoUpper(v, min, max) == Max(min, v)

clamp(v, min, max) == Max(min, Min(max, v))

lerp(a, b, t) == a + ((b - a) * t) \div LumScale

(* Math.cos / Math.sin on the first quadrant by the Taylor polynomial, then by symmetry *)
CosQ(t) ==
    LET t2 == (t * t) \div Milli
        t4 == (t2 * t2) \div Milli
        t6 == (t4 * t2) \div Milli
    IN  Milli - t2 \div 2 + t4 \div 24 - t6 \div 720

Cos(th) ==
    LET m == th % TwoPi
    IN  IF m <= HalfPi THEN CosQ(m)
        ELSE IF m <= Pi THEN 0 - CosQ(Pi - m)
        ELSE IF m <= Pi + HalfPi THEN 0 - CosQ(m - Pi)
        ELSE CosQ(TwoPi - m)

Sin(th) ==
    LET m == th % TwoPi
    IN  IF m <= HalfPi THEN CosQ(HalfPi - m)
        ELSE IF m <= Pi THEN CosQ(m - HalfPi)
        ELSE IF m <= Pi + HalfPi THEN 0 - CosQ(Pi + HalfPi - m)
        ELSE 0 - CosQ(m - Pi - HalfPi)

(* Math.pow(lum, gamma) for gamma a whole number of hundreds *)
RECURSIVE PowN(_, _)
PowN(l, n) == IF n = 0 THEN LumScale ELSE (PowN(l, n - 1) * l) \div LumScale

Pow(l, g) == PowN(l, g \div 100)

----------------------------------------------------------------------------
(* Source images: opaque, row-major RGB pixels *)

White == <<255, 255, 255>>
Black == <<0, 0, 0>>
Grey == <<128, 128, 128>>

Uniform(w, h, c) == [width |-> w, height |-> h, pixels |-> [i \in 1..(w * h) |-> c]]

Images ==
    { Uniform(1, 1, White), Uniform(2, 1, White), Uniform(1, 2, White),
      Uniform(1, 1, Black),
      [width |-> 2, height |-> 2, pixels |-> <<White, Black, Grey, White>>] }

AllWhite(im) == \A i \in 1..Len(im.pixels) : im.pixels[i] = White

----------------------------------------------------------------------------
(* Control state *)

Defaults ==
    [turns |-> 140, lineSpacing |-> 3 * PX, minWidth |-> 60, maxWidth |-> 420,
     gamma |-> 115, invert |-> FALSE, cropToCircle |-> TRUE, resolution |-> 2048]

(* <<minWidth, maxWidth>> pairs rendered by the model *)
WidthPairs == { <<50, 100>>, <<300, 100>> }

Configs ==
    { [turns |-> t, lineSpacing |-> ls, minWidth |-> wp[1], maxWidth |-> wp[2],
       gamma |-> g, invert |-> inv, cropToCircle |-> crop, resolution |-> MaxRes] :
        t \in 0..MaxTurns, ls \in {2 * PX, 3 * PX}, wp \in WidthPairs,
        g \in {100, 200}, inv \in BOOLEAN, crop \in BOOLEAN }

IsUniform(im) == \A i \in 1..Len(im.pixels) : im.pixels[i] = im.pixels[1]

(* The renders of the model: every image with every configuration, except that a
   one-colour image (whose tones 0 and 1 gamma leaves alone) is rendered at
   gamma 1.00 only *)
Inputs ==
    { in \in [image : Images, params : Configs] :
        IsUniform(in.image) => in.params.gamma = 100 }

----------------------------------------------------------------------------
(* renderSpiral: the hidden canvas *)

Scale(im, size) == Min((size * Milli) \div im.width, (size * Milli) \div im.height)
DrawW(im, size) == (im.width * Scale(im, size) * PX) \div Milli
DrawH(im, size) == (im.height * Scale(im, size) * PX) \div Milli
Dx(im, size) == (size * PX - DrawW(im, size)) \div 2
Dy(im, size) == (size * PX - DrawH(im, size)) \div 2

PixelCentre(k) == k * PX + PX \div 2

(* the pixel <<px, py>> lies in the rectangle hctx.drawImage paints *)
Covered(im, size, px, py) ==
    /\ Dx(im, size) <= PixelCentre(px)
    /\ PixelCentre(px) < Dx(im, size) + DrawW(im, size)
    /\ Dy(im, size) <= PixelCentre(py)
    /\ PixelCentre(py) < Dy(im, size) + DrawH(im, size)

(* hctx.clearRect leaves every byte 0 (transparent black); hctx.drawImage then
   writes the source pixel nearest to each covered pixel, with alpha 255 *)
HiddenData(im, size) ==
    [i \in 0..(size * size * 4 - 1) |->
        LET p == i \div 4
            ch == i % 4
            px == p % size
            py == p \div size
            sx == Min(im.width - 1, ((PixelCentre(px) - Dx(im, size)) * im.width) \div DrawW(im, size))
            sy == Min(im.height - 1, ((PixelCentre(py) - Dy(im, size)) * im.height) \div DrawH(im, size))
        IN  IF Covered(im, size, px, py)
            THEN (IF ch = 3 THEN 255 ELSE im.pixels[sy * im.width + sx + 1][ch + 1])
            ELSE 0]

(* data[i]: undefined (NaN in arithmetic) outside the buffer *)
Read(d, i) == IF i \in DOMAIN d THEN d[i] ELSE NaN

(* 0.2126 r + 0.7152 g + 0.0722 b, divided by 255 *)
RawLum(d, idx) ==
    IF Read(d, idx) = NaN \/ Read(d, idx + 1) = NaN \/ Read(d, idx + 2) = NaN
    THEN NaN
    ELSE (2126 * Read(d, idx) + 7152 * Read(d, idx + 1) + 722 * Read(d, idx + 2)) \div 255

sample(x, y, d, p) ==
    LET size == p.resolution
        ix == clamp(x, 0, (size - 1) * PX) \div PX
        iy == clamp(y, 0, (size - 1) * PX) \div PX
        idx == (iy * size + ix) * 4
        raw == RawLum(d, idx)
        lum == IF p.invert THEN LumScale - raw ELSE raw
    IN  [ix |-> ix, iy |-> iy, idx |-> idx,
         lum |-> IF raw = NaN THEN NaN ELSE clamp(Pow(lum, p.gamma), 0, LumScale)]

----------------------------------------------------------------------------
(* renderSpiral: the spiral *)

CeilDiv(a, b) == 0 - ((0 - a) \div b)

Centre(p) == (p.resolution * PX) \div 2
MaxR(p) == (p.resolution * PX) \div 2 - (p.maxWidth * 3) \div 2

(* maxTheta without the radius limit *)
MaxThetaTurnsOnly(p) == TwoPi * p.turns

(* min(maxR / b, 2 pi turns) with b = lineSpacing / (2 pi); the quotient is rounded
   up to the angle grid, which leaves theta < maxTheta as it is for theta on the grid *)
MaxTheta(p) == Min(CeilDiv(MaxR(p) * TwoPi, p.lineSpacing), TwoPi * p.turns)

(* r = b * theta *)
Radius(p, th) == (p.lineSpacing * th) \div TwoPi

(* the loop test with <= for < *)
LoopTestInclusive(th, p) == th <= MaxTheta(p)

LoopTest(th, p) == th < MaxTheta(p)

DefaultCtx ==
    [lineWidth |-> PX, clip |-> NoClip, tx |-> 0, ty |-> 0,
     lineCap |-> "butt", lineJoin |-> "miter", strokeStyle |-> "#000", fillStyle |-> "#000"]

ClipCircle(p) == [on |-> TRUE, cx |-> Centre(p), cy |-> Centre(p), r |-> Centre(p) - p.maxWidth]

Pixels(p) == (0..(p.resolution - 1)) \X (0..(p.resolution - 1))

Dist2(ax, ay, bx, by) == (ax - bx) * (ax - bx) + (ay - by) * (ay - by)

InCircle(px, c) ==
    c.r >= 0 /\ Dist2(PixelCentre(px[1]), PixelCentre(px[2]), c.cx, c.cy) <= c.r * c.r

InClip(px, clip) == clip.on => InCircle(px, clip)

HasSegment(pth) == \E i \in 1..Len(pth) : pth[i].op = "lineTo"

(* ctx.stroke(): the pixels whose centre the round-joined stroke of the current path
   covers, at the context's line width, transform and clip as they are now *)
StrokePixels(pth, c, p) ==
    IF ~HasSegment(pth) THEN {}
    ELSE { px \in Pixels(p) :
             /\ InClip(px, c.clip)
             /\ \E i \in 1..Len(pth) :
                  4 * Dist2(PixelCentre(px[1]), PixelCentre(px[2]),
                            pth[i].x + c.tx, pth[i].y + c.ty) <= c.lineWidth * c.lineWidth }

----------------------------------------------------------------------------
(* renderSpiral, step by step.  It runs in one turn of the event loop: while
   pc # "idle" no other handler runs. *)

(* lines 76-107: the state resets, both canvases sized, the white fill, the
   letterboxed image drawn into the hidden canvas and read back *)
Prepare ==
    /\ pc = "start"
    /\ img # 0
    /\ busy' = TRUE
    /\ error' = ""
    /\ downloadURL' = <<>>
    /\ renders' = renders + 1
    /\ ctx' = DefaultCtx
    /\ stack' = <<>>
    /\ path' = <<>>
    /\ black' = {}
    /\ data' = HiddenData(source, params.resolution)
    /\ pc' = "clip"
    /\ lastEvent' = "renderSpiral"
    /\ UNCHANGED <<img, params, loading, loads, pending, source, widths, theta, first,
                   sampled, stroked>>

(* lines 123-128 without the call of ctx.clip() *)
InstallClipNoClip ==
    /\ pc = "clip"
    /\ IF params.cropToCircle
       THEN stack' = Append(stack, ctx) /\ ctx' = ctx
       ELSE UNCHANGED <<stack, ctx>>
    /\ pc' = "setup"
    /\ UNCHANGED <<uiVars, source, data, path, widths, theta, first, sampled, black, stroked>>

(* lines 123-128 *)
InstallClip ==
    /\ pc = "clip"
    /\ IF params.cropToCircle
       THEN /\ stack' = Append(stack, ctx)
            /\ ctx' = [ctx EXCEPT !.clip = ClipCircle(params)]
       ELSE UNCHANGED <<stack, ctx>>
    /\ pc' = "setup"
    /\ UNCHANGED <<uiVars, source, data, path, widths, theta, first, sampled, black, stroked>>

(* lines 130-149 *)
Setup ==
    /\ pc = "setup"
    /\ stack' = Append(stack, ctx)
    /\ ctx' = [ctx EXCEPT !.tx = ctx.tx + Centre(params), !.ty = ctx.ty + Centre(params),
                          !.lineCap = "round", !.lineJoin = "round", !.strokeStyle = "#000"]
    /\ theta' = 0
    /\ first' = TRUE
    /\ path' = <<>>
    /\ widths' = <<>>
    /\ pc' = "walk"
    /\ UNCHANGED <<uiVars, source, data, sampled, black, stroked>>

(* lines 151-176: one iteration of the while loop *)
WalkStep ==
    /\ pc = "walk"
    /\ LoopTest(theta, params)
    /\ LET r == Radius(params, theta)
           x == (r * Cos(theta)) \div Milli
           y == (r * Sin(theta)) \div Milli
           s == sample(x + Centre(params), y + Centre(params), data, params)
           shade == LumScale - s.lum
           w == lerp(params.minWidth, params.maxWidth, shade)
       IN  /\ IF first
              THEN /\ path' = Append(path, [op |-> "moveTo", x |-> x, y |-> y])
                   /\ first' = FALSE
                   /\ ctx' = ctx
              ELSE /\ path' = Append(path, [op |-> "lineTo", x |-> x, y |-> y])
                   /\ first' = first
                   /\ ctx' = [ctx EXCEPT !.lineWidth = w]
           /\ widths' = Append(widths, w)
           /\ sampled' = [r |-> r, theta |-> theta, x |-> x + Centre(params),
                          y |-> y + Centre(params), ix |-> s.ix, iy |-> s.iy,
                          idx |-> s.idx, lum |-> s.lum]
    /\ theta' = theta + dTheta
    /\ UNCHANGED <<uiVars, pc, source, data, stack, black, stroked>>

Restore(st) ==
    IF Len(st.stack) = 0 THEN st
    ELSE [ctx |-> st.stack[Len(st.stack)], stack |-> SubSeq(st.stack, 1, Len(st.stack) - 1)]

(* lines 177-180: the loop has ended; stroke, restore, and the clip's restore *)
Stroke ==
    /\ pc = "walk"
    /\ ~LoopTest(theta, params)
    /\ black' = black \cup StrokePixels(path, ctx, params)
    /\ stroked' = ctx.lineWidth
    /\ LET a == Restore([ctx |-> ctx, stack |-> stack])
           b == IF params.cropToCircle THEN Restore(a) ELSE a
       IN  ctx' = b.ctx /\ stack' = b.stack
    /\ pc' = "encode"
    /\ UNCHANGED <<uiVars, source, data, path, widths, theta, first, sampled>>

(* line 182: canvas.toBlob registers the callback; renderSpiral returns *)
ToBlob ==
    /\ pc = "encode"
    /\ pending' = pending \cup {renders}
    /\ pc' = "idle"
    /\ UNCHANGED <<img, busy, downloadURL, error, params, loading, loads, renders,
                   lastEvent, source, data, ctx, stack, path, widths, theta, first,
                   sampled, black, stroked>>

(* lines 182-191: the toBlob callback of render r, with a blob (ok) or null *)
ToBlobCallback(r, ok) ==
    /\ pc = "idle"
    /\ r \in pending
    /\ pending' = pending \ {r}
    /\ busy' = FALSE
    /\ IF ok
       THEN downloadURL' = <<"blob", r>> /\ error' = error
       ELSE error' = "Failed to generate image blob." /\ downloadURL' = downloadURL
    /\ lastEvent' = IF ok THEN "blob" ELSE "noBlob"
    /\ UNCHANGED <<img, params, loading, loads, renders, renderVars>>

InitRender ==
    /\ img = 1
    /\ busy = FALSE
    /\ downloadURL = <<>>
    /\ error = ""
    /\ \E in \in Inputs : source = in.image /\ params = in.params
    /\ loading = {}
    /\ loads = 1
    /\ pending = {}
    /\ renders = 0
    /\ lastEvent = "onload"
    /\ pc = "start"
    /\ data = <<>>
    /\ ctx = DefaultCtx
    /\ stack = <<>>
    /\ path = <<>>
    /\ widths = <<>>
    /\ theta = 0
    /\ first = TRUE
    /\ sampled = [r |-> 0, theta |-> 0, x |-> 0, y |-> 0, ix |-> 0, iy |-> 0, idx |-> 0, lum |-> 0]
    /\ black = {}
    /\ stroked = NotStroked

NextRender ==
    \/ Prepare
    \/ InstallClip
    \/ Setup
    \/ WalkStep
    \/ Stroke
    \/ ToBlob
    \/ \E r \in pending, ok \in BOOLEAN : ToBlobCallback(r, ok)

SpecRender == InitRender /\ [][NextRender]_vars

----------------------------------------------------------------------------
(* The component: event handlers.  Each runs in one turn of the event loop. *)

(* renderSpiral as one step (lines 75-192), as the handlers below call it: the
   guard, the three state resets, the drawing, and toBlob's registration.  The
   canvas pixels of these calls are not followed here; SpecRender follows them. *)
RenderSpiral ==
    IF img' = 0
    THEN UNCHANGED <<busy, error, downloadURL, renders, pending>>
    ELSE /\ busy' = TRUE
         /\ error' = ""
         /\ downloadURL' = <<>>
         /\ renders' = renders + 1
         /\ pending' = pending \cup {renders + 1}

(* lines 31-37: onFile with no file *)
OnFileNone ==
    /\ pc = "idle"
    /\ error' = ""
    /\ lastEvent' = "onFile"
    /\ UNCHANGED <<img, busy, downloadURL, params, loading, loads, pending, renders, renderVars>>

(* lines 31-37: onFile with a file that is no image; the drop zone and the file
   input are mounted only while there is no image (line 235) *)
OnFileNotImage ==
    /\ pc = "idle"
    /\ img = 0
    /\ error' = "Please choose an image file."
    /\ lastEvent' = "onFile"
    /\ UNCHANGED <<img, busy, downloadURL, params, loading, loads, pending, renders, renderVars>>

(* lines 31-49: onFile with an image file (input, drop, or paste at any time) *)
OnFileImage ==
    /\ pc = "idle"
    /\ loads < MaxLoads
    /\ error' = ""
    /\ loads' = loads + 1
    /\ loading' = loading \cup {loads + 1}
    /\ lastEvent' = "onFile"
    /\ UNCHANGED <<img, busy, downloadURL, params, pending, renders, renderVars>>

(* lines 40-44, then the effect of lines 194-196: img changed *)
ImOnload(i) ==
    /\ pc = "idle"
    /\ i \in loading
    /\ renders < MaxRenders
    /\ loading' = loading \ {i}
    /\ img' = i
    /\ RenderSpiral
    /\ lastEvent' = "onload"
    /\ UNCHANGED <<params, loads, renderVars>>

(* lines 45-47 *)
ImOnerror(i) ==
    /\ pc = "idle"
    /\ i \in loading
    /\ loading' = loading \ {i}
    /\ error' = "Couldn't load that image. Try another file."
    /\ lastEvent' = "onerror"
    /\ UNCHANGED <<img, busy, downloadURL, params, loads, pending, renders, renderVars>>

(* lines 261-263: the Re-render button, mounted with an image, disabled while busy *)
ReRenderClick ==
    /\ pc = "idle"
    /\ img # 0
    /\ ~busy
    /\ renders < MaxRenders
    /\ img' = img
    /\ RenderSpiral
    /\ lastEvent' = "click"
    /\ UNCHANGED <<params, loading, loads, renderVars>>

(* lines 198-207, then the effect of lines 194-196 when a control changed *)
Reset ==
    /\ pc = "idle"
    /\ params' = Defaults
    /\ img' = img
    /\ IF params' # params /\ renders < MaxRenders
       THEN RenderSpiral
       ELSE UNCHANGED <<busy, error, downloadURL, renders, pending>>
    /\ lastEvent' = "reset"
    /\ UNCHANGED <<loading, loads, renderVars>>

Init ==
    /\ img = 0
    /\ busy = FALSE
    /\ downloadURL = <<>>
    /\ error = ""
    /\ params = Defaults
    /\ loading = {}
    /\ loads = 0
    /\ pending = {}
    /\ renders = 0
    /\ lastEvent = "mount"
    /\ pc = "idle"
    /\ source = Uniform(1, 1, White)
    /\ data = <<>>
    /\ ctx = DefaultCtx
    /\ stack = <<>>
    /\ path = <<>>
    /\ widths = <<>>
    /\ theta = 0
    /\ first = TRUE
    /\ sampled = [r |-> 0, theta |-> 0, x |-> 0, y |-> 0, ix |-> 0, iy |-> 0, idx |-> 0, lum |-> 0]
    /\ black = {}
    /\ stroked = NotStroked

Next ==
    \/ OnFileNone
    \/ OnFileNotImage
    \/ OnFileImage
    \/ \E i \in loading : ImOnload(i)
    \/ \E i \in loading : ImOnerror(i)
    \/ ReRenderClick
    \/ Reset
    \/ \E r \in pending, ok \in BOOLEAN : ToBlobCallback(r, ok)

Spec == Init /\ [][Next]_vars

----------------------------------------------------------------------------
(* sample() on its own: one call on the hidden canvas of any input, at any
   coordinates from ProbeMargin pixels outside the canvas, in half-pixel steps *)

ProbeCoords == { (k * PX) \div 2 : k \in (0 - 2 * ProbeMargin)..(2 * (MaxRes + ProbeMargin)) }

InitSample ==
    /\ img = 1
    /\ busy = TRUE
    /\ downloadURL = <<>>
    /\ error = ""
    /\ \E in \in Inputs :
         /\ in.params.turns = 0 /\ in.params.lineSpacing = 2 * PX
         /\ in.params.minWidth = 50 /\ ~in.params.cropToCircle
         /\ source = in.image /\ params = in.params
    /\ loading = {}
    /\ loads = 1
    /\ pending = {}
    /\ renders = 1
    /\ lastEvent = "renderSpiral"
    /\ pc = "sample"
    /\ data = HiddenData(source, params.resolution)
    /\ ctx = DefaultCtx
    /\ stack = <<>>
    /\ path = <<>>
    /\ widths = <<>>
    /\ theta = 0
    /\ first = TRUE
    /\ sampled = [r |-> 0, theta |-> 0, x |-> 0, y |-> 0, ix |-> 0, iy |-> 0, idx |-> 0, lum |-> 0]
    /\ black = {}
    /\ stroked = NotStroked

(* lines 109-121: sample(x, y) *)
Probe(x, y) ==
    /\ pc = "sample"
    /\ LET s == sample(x, y, data, params)
       IN  sampled' = [r |-> 0, theta |-> 0, x |-> x, y |-> y, ix |-> s.ix, iy |-> s.iy,
                       idx |-> s.idx, lum |-> s.lum]
    /\ pc' = "sampled"
    /\ UNCHANGED <<uiVars, source, data, ctx, stack, path, widths, theta, first, black, stroked>>

NextSample == \E x \in ProbeCoords, y \in ProbeCoords : Probe(x, y)

SpecSample == InitSample /\ [][NextSample]_vars

----------------------------------------------------------------------------
(* Properties *)

Stroked == stroked # NotStroked

PixelIdx(px, p) == (px[2] * p.resolution + px[1]) * 4

(* C1: the segment ending at sample i (i >= 2 in path order) is painted with the
   width w_i computed at sample i.  Checked under SpecRender. *)
C1_SegmentPaintedWithOwnWidth ==
    Stroked => \A i \in 2..Len(widths) : stroked = widths[i]

(* C2: after the prepare step every pixel of the working buffer that the scaled
   image does not cover has raw luminance 1.0.  Checked under SpecRender. *)
C2_LetterboxIsWhite ==
    pc # "start" =>
        \A px \in Pixels(params) :
            ~Covered(source, params.resolution, px[1], px[2])
                => RawLum(data, PixelIdx(px, params)) = LumScale

(* C3: for every coordinate pair given to sample, the pixel indices lie in
   [0, resolution-1], idx .. idx+2 lie inside the buffer, and the luminance
   returned is a number in [0, 1].  Checked under SpecSample. *)
C3_SampleClamped ==
    pc = "sampled" =>
        /\ sampled.ix \in 0..(params.resolution - 1)
        /\ sampled.iy \in 0..(params.resolution - 1)
        /\ sampled.idx >= 0
        /\ sampled.idx + 2 < params.resolution * params.resolution * 4
        /\ sampled.lum # NaN
        /\ sampled.lum >= 0
        /\ sampled.lum <= LumScale

C3_Witness ==
    /\ pc = "sampled"
    /\ sampled.x < 0
    /\ sampled.y >= params.resolution * PX
    /\ sampled.ix = 0
    /\ sampled.iy = params.resolution - 1

(* C4: for an all-white source image with invert = false, the width computed at
   every sample of the walk is minWidth.  Checked under SpecRender. *)
C4_AllWhiteGivesMinWidth ==
    (AllWhite(source) /\ ~params.invert) =>
        \A i \in 1..Len(widths) : widths[i] = params.minWidth

(* C5: with lineSpacing > 0, maxWidth >= 0 and turns >= 0, at every iteration of
   the walk the radius of the sampled point is at most maxR and theta is below
   2 pi turns; and the walk stops only when one of the two limits is reached.
   Checked under SpecRender. *)
C5_WalkWithinLimits ==
    (params.lineSpacing > 0 /\ params.maxWidth >= 0 /\ params.turns >= 0) =>
        /\ Len(widths) > 0 =>
              /\ sampled.r <= MaxR(params)
              /\ sampled.theta < TwoPi * params.turns
        /\ Stroked =>
              \/ theta >= TwoPi * params.turns
              \/ Radius(params, theta) >= MaxR(params)

C5_Witness ==
    /\ Stroked
    /\ Len(widths) > 0
    /\ theta < TwoPi * params.turns
    /\ Radius(params, theta) >= MaxR(params)

(* C6 as stated: with turns = 0 the path holds exactly one moveTo and no line
   segment, and nothing is stroked.  Checked under SpecRender. *)
C6_OneMoveToOnly ==
    (params.turns = 0 /\ Stroked) =>
        /\ Len(path) = 1
        /\ path[1].op = "moveTo"
        /\ black = {}

(* C6 amended: with turns = 0 the path is empty (no moveTo, no line segment), and
   nothing is stroked.  Checked under SpecRender. *)
C6_EmptyPath ==
    (params.turns = 0 /\ Stroked) =>
        /\ path = <<>>
        /\ black = {}

C6_Witness == params.turns = 0 /\ Stroked /\ pc = "idle" /\ pending = {}

(* C7: at most one render has an outstanding toBlob callback.  Checked under Spec. *)
C7_OneRenderInFlight == Cardinality(pending) <= 1

(* C8: right after a toBlob callback with a null blob, the error is reported,
   busy is false and downloadURL is empty.  Checked under Spec. *)
C8_FailurePublishesNothing ==
    lastEvent = "noBlob" =>
        /\ error = "Failed to generate image blob."
        /\ ~busy
        /\ downloadURL = <<>>

(* C9: with cropToCircle the circular clip of radius resolution/2 - maxWidth is in
   force from its installation until ctx.stroke() has run, and no black pixel lies
   outside that circle; without cropToCircle no clip is in force; after the
   render every save has been undone by a restore.  Checked under SpecRender. *)
C9_ClipAroundStroke ==
    /\ pc \in {"setup", "walk"} =>
          ctx.clip = (IF params.cropToCircle THEN ClipCircle(params) ELSE NoClip)
    /\ (Stroked /\ params.cropToCircle) =>
          \A px \in black : InCircle(px, ClipCircle(params))
    /\ Stroked => (stack = <<>> /\ ctx = DefaultCtx)

C9_Witness ==
    /\ Stroked
    /\ params.cropToCircle
    /\ black # {}
    /\ \E px \in Pixels(params) :
         /\ ~InCircle(px, ClipCircle(params))
         /\ px \in StrokePixels(path, [DefaultCtx EXCEPT !.tx = Centre(params),
                                         !.ty = Centre(params), !.lineWidth = stroked], params)

(* C10: busy is true whenever a toBlob callback is outstanding, and a non-empty
   downloadURL is the output of the render started last.  Checked under Spec. *)
C10_BusyAndCurrentOutput ==
    /\ pending # {} => busy
    /\ downloadURL # <<>> => downloadURL = <<"blob", renders>>

====
